---- MODULE Spec2Model ----
(***************************************************************************)
(* RobotExplorer (src/RobotExplorer.py): a robot moves through a maze of   *)
(* rooms built from a text.  A maze text is a sequence of one-character    *)
(* strings; a room is identified by its grid coordinate <<row, col>>.      *)
(***************************************************************************)
EXTENDS Integers, Sequences, FiniteSets, TLC

VARIABLES maze, pc, grid, occupant, doors, teleports, has_robot, robot_room,
          screen, solution, ip, error, last

vars == <<maze, pc, grid, occupant, doors, teleports, has_robot, robot_room,
          screen, solution, ip, error, last>>

----------------------------------------------------------------------------
(* Bounds *)

MaxText == 3

MaxSolution == 5

----------------------------------------------------------------------------
(* Rooms that are not grid cells *)

\* Doors.edge, the one shared Room(Edge())
EdgeRoom == <<-1, -1>>

\* a Room(Edge()) made on the spot as the default of a dict lookup
FreshEdge == <<-1, -2>>

\* Python's None where a Room is expected
NoneRoom == <<-2, -2>>

\* a Room(item) the caller builds itself, outside the grid
LooseRoom == <<-1, -3>>

NL == "\n"

Urge == {"North", "South", "East", "West"}

\* a value that is not a member of Urge
BogusUrge == "Bogus"

NoUrge == "None"

----------------------------------------------------------------------------
(* Items *)

Robot == [kind |-> "Robot", symbol |-> "R"]

Wall == [kind |-> "Wall", symbol |-> "#"]

Food == [kind |-> "Food", symbol |-> "."]

Teleport(target) ==
    [kind |-> "Teleport", symbol |-> "", target |-> target,
     target_room |-> NoneRoom]

Empty == [kind |-> "Empty", symbol |-> "_"]

Edge == [kind |-> "Edge", symbol |-> "/"]

EndGame == [kind |-> "EndGame", symbol |-> "!"]

\* Item.__subclasses__() in definition order; Teleport has no symbol of its
\* own and inherits Item.symbol = ''
ItemSubclasses == <<Robot, Wall, Food, Teleport(""), Empty, Edge, EndGame>>

item_factory(symbol) ==
    LET hits == {i \in 1..Len(ItemSubclasses) :
                    symbol = ItemSubclasses[i].symbol}
    IN  IF hits # {}
        THEN ItemSubclasses[CHOOSE i \in hits : \A j \in hits : i <= j]
        ELSE Teleport(symbol)

\* Item.__str__ / Teleport.__str__
Str_Symbol(item) == item.symbol

Str(item) == IF item.kind = "Teleport" THEN item.target ELSE item.symbol

\* code point of a character (Python compares sort keys by code point)
Ord(ch) ==
    CASE ch = " " -> 32
      [] ch = "!" -> 33
      [] ch = "#" -> 35
      [] ch = "." -> 46
      [] ch = "/" -> 47
      [] ch = "R" -> 82
      [] ch = "_" -> 95
      [] ch = "a" -> 97
      [] ch = "b" -> 98
      [] ch = "c" -> 99
      [] OTHER -> 120

----------------------------------------------------------------------------
(* Doors *)

\* the forward stub `class Doors: pass`: an object with no links
StubDoors == <<>>

\* Doors.__init__
NewDoors ==
    [north |-> EdgeRoom, south |-> EdgeRoom, east |-> EdgeRoom,
     west |-> EdgeRoom]

Coords(g) == {g[i] : i \in 1..Len(g)}

connect_WestIsEast(row, col, g) ==
    LET link(to_row, to_col) ==
            IF <<to_row, to_col>> \in Coords(g)
            THEN <<to_row, to_col>> ELSE EdgeRoom
    IN  [north |-> link(row - 1, col), south |-> link(row + 1, col),
         east |-> link(row, col + 1), west |-> link(row, col + 1)]

connect_Flipped(row, col, g) ==
    LET link(to_row, to_col) ==
            IF <<to_row, to_col>> \in Coords(g)
            THEN <<to_row, to_col>> ELSE EdgeRoom
    IN  [north |-> link(row + 1, col), south |-> link(row - 1, col),
         east |-> link(row, col + 1), west |-> link(row, col - 1)]

\* Doors.connect
connect(row, col, g) ==
    LET link(to_row, to_col) ==
            IF <<to_row, to_col>> \in Coords(g)
            THEN <<to_row, to_col>> ELSE EdgeRoom
    IN  [north |-> link(row - 1, col), south |-> link(row + 1, col),
         east |-> link(row, col + 1), west |-> link(row, col - 1)]

\* Doors.open
open(d, urge) ==
    CASE urge = "North" -> d.north
      [] urge = "South" -> d.south
      [] urge = "East" -> d.east
      [] urge = "West" -> d.west
      [] OTHER -> FreshEdge

\* room.doors: Doors.edge was built while Doors still named the stub
DoorsOf(room) ==
    IF room = EdgeRoom THEN StubDoors
    ELSE IF room \in {FreshEdge, LooseRoom} THEN NewDoors
    ELSE doors[room]

\* room.occupant
OccupantOf(room) ==
    IF room \in Coords(grid) THEN occupant[room] ELSE Edge

----------------------------------------------------------------------------
(* Stage 1 helpers: maze.split("\n") and the row-major scan *)

RECURSIVE SplitFrom(_, _, _)
SplitFrom(text, i, line) ==
    IF i > Len(text) THEN <<line>>
    ELSE IF text[i] = NL THEN <<line>> \o SplitFrom(text, i + 1, <<>>)
    ELSE SplitFrom(text, i + 1, Append(line, text[i]))

Split(text) == SplitFrom(text, 1, <<>>)

RowCells(row, line) ==
    [i \in 1..Len(line) |-> [row |-> row, col |-> i - 1, char |-> line[i]]]

RECURSIVE ScanFrom(_, _)
ScanFrom(lines, r) ==
    IF r > Len(lines) THEN <<>>
    ELSE RowCells(r - 1, lines[r]) \o ScanFrom(lines, r + 1)

\* enumerate(maze.split("\n")) x enumerate(line)
Scan(text) == ScanFrom(Split(text), 1)

IsRobot(cell) == item_factory(cell.char).kind = "Robot"

IsTeleport(cell) == item_factory(cell.char).kind = "Teleport"

Placed_KeepsMarker(char) == item_factory(char)

\* the occupant Stage 1 puts in the room of a scanned character
Placed(char) ==
    LET item == item_factory(char)
    IN  IF item.kind = "Robot" THEN Empty ELSE item

----------------------------------------------------------------------------
(* Stage 3 helpers: list.sort(key=target) is stable; zip(it, it) pairs *)

TargetOf(room, occ) == occ[room].target

RECURSIVE InsertByTarget(_, _, _)
InsertByTarget(room, sorted, occ) ==
    IF sorted = <<>> THEN <<room>>
    ELSE IF Ord(TargetOf(room, occ)) < Ord(TargetOf(Head(sorted), occ))
         THEN <<room>> \o sorted
         ELSE <<Head(sorted)>> \o InsertByTarget(room, Tail(sorted), occ)

SortByTarget_Unsorted(rooms, occ) == rooms

RECURSIVE SortByTarget(_, _)
SortByTarget(rooms, occ) ==
    IF rooms = <<>> THEN <<>>
    ELSE InsertByTarget(rooms[Len(rooms)],
                        SortByTarget(SubSeq(rooms, 1, Len(rooms) - 1), occ),
                        occ)

Partner_OneWay(sorted, i) ==
    IF i % 2 = 1
    THEN (IF i + 1 <= Len(sorted) THEN sorted[i + 1] ELSE NoneRoom)
    ELSE NoneRoom

\* the partner zip(it, it) gives the room at position i of the sorted list
\* (NoneRoom for the last room of an odd-length list)
Partner(sorted, i) ==
    IF i % 2 = 1
    THEN (IF i + 1 <= Len(sorted) THEN sorted[i + 1] ELSE NoneRoom)
    ELSE sorted[i - 1]

PairTeleports(sorted, occ) ==
    [room \in DOMAIN occ |->
        IF \E i \in 1..Len(sorted) : sorted[i] = room
        THEN LET i == CHOOSE i \in 1..Len(sorted) : sorted[i] = room
             IN  [occ[room] EXCEPT !.target_room = Partner(sorted, i)]
        ELSE occ[room]]

----------------------------------------------------------------------------
(* Item.interact: the room the robot is in afterwards *)

interact_EndGameStops(item, robot, room) ==
    CASE item.kind = "Wall" -> robot
      [] item.kind = "Food" -> room
      [] item.kind = "Teleport" -> item.target_room
      [] item.kind = "Empty" -> room
      [] item.kind = "Edge" -> robot
      [] OTHER -> NoneRoom

interact_WallPassable(item, robot, room) ==
    CASE item.kind = "Wall" -> room
      [] item.kind = "Food" -> room
      [] item.kind = "Teleport" -> item.target_room
      [] item.kind = "Empty" -> room
      [] item.kind = "Edge" -> robot
      [] item.kind = "EndGame" -> room
      [] OTHER -> NoneRoom

interact(item, robot, room) ==
    CASE item.kind = "Wall" -> robot
      [] item.kind = "Food" -> room
      [] item.kind = "Teleport" -> item.target_room
      [] item.kind = "Empty" -> room
      [] item.kind = "Edge" -> robot
      [] item.kind = "EndGame" -> room
      [] OTHER -> NoneRoom

Eaten_Anything(item, room, occ) ==
    IF room \in DOMAIN occ THEN [occ EXCEPT ![room] = Empty] ELSE occ

Eaten_Never(item, room, occ) == occ

\* Food.interact's side effect: room.occupant = Empty()
Eaten(item, room, occ) ==
    IF item.kind = "Food" /\ room \in DOMAIN occ
    THEN [occ EXCEPT ![room] = Empty] ELSE occ

\* Room.enter
enter(room) == interact(OccupantOf(room), robot_room, room)

\* robot.room.doors.open(urge) raises AttributeError when there is no robot,
\* when robot.room is None and when the doors are the stub
CanMove ==
    /\ has_robot
    /\ robot_room # NoneRoom
    /\ DOMAIN DoorsOf(robot_room) # {}

Target(urge) == open(DoorsOf(robot_room), urge)

----------------------------------------------------------------------------
(* GameBuilder.show_maze *)

RECURSIVE ShowFrom(_, _, _, _, _, _)
ShowFrom(g, occ, robot, i, current_row, result) ==
    IF i > Len(g) THEN result
    ELSE LET room == g[i]
             row == room[1]
             sep == IF row # current_row THEN <<NL>> ELSE <<>>
             sym == IF room = robot THEN Robot.symbol ELSE Str(occ[room])
         IN  ShowFrom(g, occ, robot, i + 1, row, result \o sep \o <<sym>>)

show_maze(g, occ, robot) == ShowFrom(g, occ, robot, 1, 0, <<>>)

\* show_maze reads self.robot for every cell: it raises AttributeError when
\* there is a cell and no robot was made
CanShow == has_robot \/ grid = <<>>

----------------------------------------------------------------------------
(* Inputs *)

TextChars == {"R", "_", ".", "#", "a", "c", NL}

Texts == UNION {[1..n -> TextChars] : n \in 0..MaxText}

MazeC6 == <<"R", "_", ".", NL, "#", "_", ".">>

LargerMazes ==
    { MazeC6,
      <<"a", "c", "R", "c">>,
      <<"a", "c", "c", "c">>,
      <<"a", "b", "R", "b", "c">>,
      <<"R", ".", NL, "#", "_">>,
      <<"c", "c", "R", "c", "c">>,
      <<"R", ".", ".", "a", "a">>,
      <<"a", "R", "c", "_", "c", "a">>,
      <<"c", "R", "c", "b", "_", "b">>,
      <<"R", "a", "c", "c", "c", "c">>,
      <<"R", "!", "_", NL, ".", "/", "b">>,
      <<"a", "_", ".", NL, "R", "#", NL, "!", "a", "_">> }

Mazes == Texts \cup LargerMazes

SolutionChars == {"n", "s", "e", "w", "x", " "}

Solutions == UNION {[1..n -> SolutionChars] : n \in 0..MaxSolution}

NoCall == [op |-> "none", urge |-> NoUrge, from |-> NoneRoom,
           target |-> NoneRoom]

Call(op, urge, from, target) ==
    [op |-> op, urge |-> urge, from |-> from, target |-> target]

----------------------------------------------------------------------------
(* GameBuilder.__init__ *)

InitWith(texts) ==
    /\ maze \in texts
    /\ pc = "stage1"
    /\ grid = <<>>
    /\ occupant = <<>>
    /\ doors = <<>>
    /\ teleports = <<>>
    /\ has_robot = FALSE
    /\ robot_room = NoneRoom
    /\ screen = <<>>
    /\ solution = <<>>
    /\ ip = 1
    /\ error = "none"
    /\ last = NoCall

Init == InitWith(Mazes)

Stage1 ==
    /\ pc = "stage1"
    /\ LET cells == Scan(maze)
           keys == [i \in 1..Len(cells) |-> <<cells[i].row, cells[i].col>>]
           robots == {i \in 1..Len(cells) : IsRobot(cells[i])}
       IN  /\ grid' = keys
           /\ occupant' = [room \in Coords(keys) |->
                  Placed(cells[CHOOSE i \in 1..Len(cells) : keys[i] = room].char)]
           /\ doors' = [room \in Coords(keys) |-> NewDoors]
           /\ teleports' =
                  LET tele == SelectSeq(cells, IsTeleport)
                  IN  [i \in 1..Len(tele) |-> <<tele[i].row, tele[i].col>>]
           /\ has_robot' = (robots # {})
           /\ robot_room' =
                  IF robots = {} THEN NoneRoom
                  ELSE keys[CHOOSE i \in robots : \A j \in robots : j <= i]
    /\ pc' = "stage2"
    /\ last' = Call("stage1", NoUrge, NoneRoom, NoneRoom)
    /\ UNCHANGED <<maze, screen, solution, ip, error>>

Stage2 ==
    /\ pc = "stage2"
    /\ doors' = [room \in Coords(grid) |-> connect(room[1], room[2], grid)]
    /\ pc' = "stage3"
    /\ last' = Call("stage2", NoUrge, NoneRoom, NoneRoom)
    /\ UNCHANGED <<maze, grid, occupant, teleports, has_robot, robot_room,
                   screen, solution, ip, error>>

Stage3 ==
    /\ pc = "stage3"
    /\ LET sorted == SortByTarget(teleports, occupant)
       IN  /\ teleports' = sorted
           /\ occupant' = PairTeleports(sorted, occupant)
    /\ pc' = "ready"
    /\ last' = Call("stage3", NoUrge, NoneRoom, NoneRoom)
    /\ UNCHANGED <<maze, grid, doors, has_robot, robot_room, screen,
                   solution, ip, error>>

----------------------------------------------------------------------------
(* Robot.move, GameBuilder.show_maze, GameBuilder.step, GameBuilder.run *)

\* the assignments of Robot.move; an AttributeError leaves the state alone
MoveEffect(urge) ==
    IF CanMove
    THEN /\ robot_room' = enter(Target(urge))
         /\ occupant' = Eaten(OccupantOf(Target(urge)), Target(urge), occupant)
         /\ error' = "none"
    ELSE /\ error' = "AttributeError"
         /\ UNCHANGED <<robot_room, occupant>>

move(urge) ==
    /\ pc = "ready"
    /\ error = "none"
    /\ MoveEffect(urge)
    /\ last' = Call("move", urge, robot_room,
                    IF CanMove THEN Target(urge) ELSE NoneRoom)
    /\ UNCHANGED <<maze, pc, grid, doors, teleports, has_robot, screen,
                   solution, ip>>

ShowMaze ==
    /\ pc = "ready"
    /\ error = "none"
    /\ error' = IF CanShow THEN "none" ELSE "AttributeError"
    /\ last' = Call("show_maze", NoUrge, NoneRoom, NoneRoom)
    /\ UNCHANGED <<maze, pc, grid, occupant, doors, teleports, has_robot,
                   robot_room, screen, solution, ip>>

\* `if urge:` skips None; print(self.show_maze()) runs after the move and
\* is not reached when the move raised
StepEffect(urge) ==
    IF urge # NoUrge
    THEN /\ MoveEffect(urge)
         /\ screen' = IF CanMove
                    THEN show_maze(grid, occupant', robot_room')
                    ELSE screen
    ELSE /\ error' = IF CanShow THEN "none" ELSE "AttributeError"
         /\ screen' = IF CanShow
                    THEN show_maze(grid, occupant, robot_room)
                    ELSE screen
         /\ UNCHANGED <<robot_room, occupant>>

step(urge) ==
    /\ pc = "ready"
    /\ error = "none"
    /\ StepEffect(urge)
    /\ last' = Call("step", urge, IF urge = NoUrge THEN NoneRoom ELSE robot_room,
                    IF urge # NoUrge /\ CanMove THEN Target(urge) ELSE NoneRoom)
    /\ UNCHANGED <<maze, pc, grid, doors, teleports, has_robot, solution, ip>>

\* ''.join(solution.split()): the solution without its whitespace
Strip(sol) == SelectSeq(sol, LAMBDA ch : ch \notin {" ", NL})

\* match.get(urge_char)
Match(urge_char) ==
    CASE urge_char = "n" -> "North"
      [] urge_char = "s" -> "South"
      [] urge_char = "e" -> "East"
      [] urge_char = "w" -> "West"
      [] OTHER -> NoUrge

\* GameBuilder.run is entered: the loop is about to take its first character
run ==
    /\ pc = "ready"
    /\ error = "none"
    /\ pc' = "run"
    /\ \E sol \in Solutions : solution' = Strip(sol)
    /\ ip' = 1
    /\ last' = Call("run", NoUrge, NoneRoom, NoneRoom)
    /\ UNCHANGED <<maze, grid, occupant, doors, teleports, has_robot,
                   robot_room, screen, error>>

\* one iteration of the loop of GameBuilder.run
RunStep ==
    /\ pc = "run"
    /\ error = "none"
    /\ ip <= Len(solution)
    /\ StepEffect(Match(solution[ip]))
    /\ ip' = ip + 1
    /\ last' = Call("step", Match(solution[ip]),
                    IF Match(solution[ip]) = NoUrge THEN NoneRoom
                    ELSE robot_room,
                    IF Match(solution[ip]) # NoUrge /\ CanMove
                    THEN Target(Match(solution[ip])) ELSE NoneRoom)
    /\ UNCHANGED <<maze, pc, grid, doors, teleports, has_robot, solution>>

\* robot.room = Room(item).enter(robot): the robot is sent into a room that
\* holds item, the way Robot.move sends it into the room a door opens onto
Items == {Robot, Wall, Food, Teleport("a"), Empty, Edge, EndGame}

EnterRoomOf(item) ==
    /\ pc = "ready"
    /\ error = "none"
    /\ has_robot
    /\ robot_room' = interact(item, robot_room, LooseRoom)
    /\ last' = Call("enter", item.kind, robot_room, LooseRoom)
    /\ UNCHANGED <<maze, pc, grid, occupant, doors, teleports, has_robot,
                   screen, solution, ip, error>>

Next ==
    \/ Stage1
    \/ Stage2
    \/ Stage3
    \/ \E urge \in Urge \cup {BogusUrge} : move(urge)
    \/ ShowMaze
    \/ \E urge \in Urge \cup {NoUrge} : step(urge)

Spec == Init /\ [][Next]_vars

\* the game driven by GameBuilder.run alone, as in the script's main block
RunMazes == {MazeC6, <<"a", "R", "c", "_", "c", "a">>}

InitRun == InitWith(RunMazes)

NextRun ==
    \/ Stage1
    \/ Stage2
    \/ Stage3
    \/ run
    \/ RunStep

SpecRun == InitRun /\ [][NextRun]_vars

\* the interaction of every item kind, applied to the robot of a built game
NextItems ==
    \/ Stage1
    \/ Stage2
    \/ Stage3
    \/ \E urge \in Urge : move(urge)
    \/ \E item \in Items : EnterRoomOf(item)

SpecItems == Init /\ [][NextItems]_vars

TypeOK ==
    /\ pc \in {"stage1", "stage2", "stage3", "ready", "run"}
    /\ error \in {"none", "AttributeError"}
    /\ has_robot \in BOOLEAN

----------------------------------------------------------------------------
(* Vocabulary of the properties *)

Rooms == Coords(grid)

TeleportRooms == {room \in Rooms : occupant[room].kind = "Teleport"}

Labels == {occupant[room].target : room \in TeleportRooms}

\* the teleport rooms labelled L, in the order of the scan
LabelRooms(L) ==
    SelectSeq(grid, LAMBDA room : /\ occupant[room].kind = "Teleport"
                                  /\ occupant[room].target = L)

\* the rooms whose character in the maze text is ch
CharRooms(ch) ==
    LET cells == Scan(maze)
    IN  {<<cells[i].row, cells[i].col>> : i \in {j \in 1..Len(cells) :
                                                    cells[j].char = ch}}

MoveOps == {"move", "step"}

\* the step being taken is a call of Robot.move with urge d (directly or from
\* GameBuilder.step) that did not raise
Moves(d) ==
    /\ last'.op \in MoveOps
    /\ last'.urge = d
    /\ CanMove

\* the last call was a Robot.move that entered room
LastEntered(room) ==
    /\ last.op \in MoveOps
    /\ last.urge \in Urge
    /\ last.target = room

Blocked(d) ==
    /\ CanMove
    /\ \/ OccupantOf(Target(d)).kind = "Wall"
       \/ Target(d) = EdgeRoom

----------------------------------------------------------------------------
\* C1: a move towards a Wall or off the edge of the maze leaves the robot's
\* room and every occupant unchanged, and the move is still blocked
\* afterwards, so repeating it changes nothing either.
C1_BlockedMoveIsNoOp ==
    [][\A d \in Urge :
          (Blocked(d) /\ Moves(d)) =>
              /\ robot_room' = robot_room
              /\ occupant' = occupant
              /\ Blocked(d)']_vars

C1_Witness ==
    /\ LastEntered(last.target)
    /\ last.op = "move"
    /\ last.target \in Rooms
    /\ occupant[last.target].kind = "Wall"
    /\ robot_room = last.from
    /\ \E d \in Urge : Target(d) = EdgeRoom

----------------------------------------------------------------------------
\* C2: a move that targets a cell holding Food puts the robot in that cell
\* and turns exactly that occupant into Empty; a cell that holds no Food never
\* holds Food afterwards and an eaten cell stays Empty; a move that targets an
\* eaten cell puts the robot in it and changes no occupant.
C2_FoodEatenOnce ==
    [][/\ \A d \in Urge :
            Moves(d) =>
                LET room == Target(d)
                IN  /\ OccupantOf(room).kind = "Food" =>
                          /\ robot_room' = room
                          /\ occupant' = [occupant EXCEPT ![room] = Empty]
                    /\ (room \in CharRooms(Food.symbol)
                            /\ OccupantOf(room).kind = "Empty") =>
                          /\ robot_room' = room
                          /\ occupant' = occupant
       /\ \A room \in Rooms :
            /\ occupant[room].kind # "Food" => occupant'[room].kind # "Food"
            /\ (room \in CharRooms(Food.symbol)
                    /\ occupant[room].kind = "Empty") =>
                  occupant'[room].kind = "Empty"]_vars

\* the robot re-entered, by a plain move from another room, a food cell it
\* had been shown in before: the screen still shows it there
C2_Witness ==
    /\ last.op = "move"
    /\ LastEntered(robot_room)
    /\ last.from # robot_room
    /\ robot_room \in CharRooms(Food.symbol)
    /\ occupant[robot_room].kind = "Empty"
    /\ screen = show_maze(grid, occupant, robot_room)

----------------------------------------------------------------------------
\* C3: when exactly two cells carry the teleport label c, a move that
\* targets one of them leaves the robot in the other one (whatever other
\* teleport cells the maze has), so two such moves make a round trip.
C3_TwoOfALabelArePaired ==
    \A L \in Labels :
        Len(LabelRooms(L)) = 2 =>
            \A i \in {1, 2} :
                (pc = "ready" /\ LastEntered(LabelRooms(L)[i])) =>
                    robot_room = LabelRooms(L)[3 - i]

----------------------------------------------------------------------------
\* C4: with an odd number of teleport cells, a move that targets the
\* teleport left without a destination leaves the robot where it was; the
\* robot's room is never unset and no move fails.
Unpaired(room) ==
    /\ room \in TeleportRooms
    /\ occupant[room].target_room = NoneRoom

C4_UnpairedTeleportIsAWall ==
    (pc = "ready" /\ has_robot /\ Cardinality(TeleportRooms) % 2 = 1) =>
        /\ robot_room # NoneRoom
        /\ error = "none"
        /\ \A room \in Rooms :
              (Unpaired(room) /\ LastEntered(room)) => robot_room = last.from

----------------------------------------------------------------------------
\* C5: teleport pairing is symmetric in every state, during the build and
\* after any moves: A's destination is B iff B's destination is A.
C5_PairingSymmetric ==
    \A A \in TeleportRooms : \A B \in TeleportRooms :
        (occupant[A].target_room = B) <=> (occupant[B].target_room = A)

C5_Witness ==
    /\ pc = "ready"
    /\ last.op = "move"
    /\ \E A \in TeleportRooms : \E B \in TeleportRooms \ {A} :
          /\ occupant[A].target_room = B
          /\ LastEntered(A)
          /\ robot_room = B

----------------------------------------------------------------------------
\* C6: in the maze 'R_.' / '#_.' the robot starts at (0,0); the commands
\* e, e, s, w, n take it to (0,1), (0,2), (1,2), (1,1), (0,1), the food cells
\* (0,2) and (1,2) being Empty once entered; a single s from the start
\* leaves it at (0,0).
Done == SubSeq(solution, 1, ip - 1)

C6_Walkthrough ==
    (maze = MazeC6 /\ pc \in {"ready", "run"}) =>
        /\ Done = <<>> => robot_room = <<0, 0>>
        /\ Done = <<"e">> => robot_room = <<0, 1>>
        /\ Done = <<"e", "e">> =>
              /\ robot_room = <<0, 2>>
              /\ occupant[<<0, 2>>] = Empty
        /\ Done = <<"e", "e", "s">> =>
              /\ robot_room = <<1, 2>>
              /\ occupant[<<0, 2>>] = Empty
              /\ occupant[<<1, 2>>] = Empty
        /\ Done = <<"e", "e", "s", "w">> => robot_room = <<1, 1>>
        /\ Done = <<"e", "e", "s", "w", "n">> =>
              /\ robot_room = <<0, 1>>
              /\ occupant[<<0, 2>>] = Empty
              /\ occupant[<<1, 2>>] = Empty
        /\ Done = <<"s">> =>
              /\ robot_room = <<0, 0>>
              /\ occupant[<<1, 0>>] = Wall
        /\ error = "none"

C6_Witness ==
    /\ maze = MazeC6
    /\ pc = "run"
    /\ Done = <<"e", "e", "s", "w", "n">>
    /\ robot_room = <<0, 1>>
    /\ screen = <<"_", "R", "_", NL, "#", "_", "_">>

----------------------------------------------------------------------------
\* C7: a maze text without the robot marker builds a game whose robot is in
\* the edge sentinel room, and neither rendering nor moving fails on it.
C7_NoMarkerRobotInEdge ==
    (pc = "ready" /\ CharRooms(Robot.symbol) = {}) =>
        /\ has_robot
        /\ robot_room = EdgeRoom
        /\ error = "none"

----------------------------------------------------------------------------
\* C8: when more than two teleport cells share a label L, the L cells are
\* paired in scan order: the 1st with the 2nd, the 3rd with the 4th, ...
\* whatever teleport cells with other labels there are.
C8_SameLabelPairedInScanOrder ==
    pc = "ready" =>
        \A L \in Labels :
            LET rooms == LabelRooms(L)
            IN  Len(rooms) > 2 =>
                    \A i \in 1..Len(rooms) :
                        (i % 2 = 1 /\ i + 1 <= Len(rooms)) =>
                            /\ occupant[rooms[i]].target_room = rooms[i + 1]
                            /\ occupant[rooms[i + 1]].target_room = rooms[i]

----------------------------------------------------------------------------
\* C9: in every state after the build show_maze succeeds and lists the cells
\* in row-major order, 'R' at exactly the robot's room and the occupant's
\* symbol elsewhere; show_maze and step without a direction leave the robot's
\* room and every occupant as they were.
RowMajor(g) ==
    \A i \in 1..Len(g) : \A j \in 1..Len(g) :
        i < j => \/ g[i][1] < g[j][1]
                 \/ (g[i][1] = g[j][1] /\ g[i][2] < g[j][2])

\* the text without its line breaks
Cells(text) == SelectSeq(text, LAMBDA ch : ch # NL)

Rendered(text) ==
    /\ RowMajor(grid)
    /\ Len(Cells(text)) = Len(grid)
    /\ \A i \in 1..Len(grid) :
          Cells(text)[i] = IF grid[i] = robot_room THEN "R"
                           ELSE Str(occupant[grid[i]])

\* the step being taken is a call of show_maze, or of step without a direction
ShowsOnly ==
    \/ last'.op = "show_maze"
    \/ (last'.op = "step" /\ last'.urge = NoUrge)

C9_RenderOverlaysRobot ==
    [][/\ pc' = "ready" =>
            /\ CanShow'
            /\ Rendered(show_maze(grid, occupant, robot_room))'
            /\ (last'.op = "step" /\ error' = "none") => Rendered(screen)'
       /\ ShowsOnly =>
            /\ error' = "none"
            /\ robot_room' = robot_room
            /\ occupant' = occupant]_vars

----------------------------------------------------------------------------
\* C10: every room, the edge sentinel included, has its four links set at
\* every moment, each to a grid room or to the edge sentinel.
Links == {"north", "south", "east", "west"}

C10_AllLinksSet ==
    \A room \in Rooms \cup {EdgeRoom} :
        /\ DOMAIN DoorsOf(room) = Links
        /\ \A l \in Links : DoorsOf(room)[l] \in Rooms \cup {EdgeRoom}

----------------------------------------------------------------------------
\* C11 (as stated): after the build of any maze every 'R' cell holds Empty,
\* the robot's room is an 'R' cell, and no grid room ever holds the robot
\* marker.
JustBuilt == pc = "ready" /\ last.op = "stage3"

NoMarkerOccupant == \A room \in Rooms : occupant[room].kind # "Robot"

MarkerCellsEmpty == \A room \in CharRooms(Robot.symbol) : occupant[room] = Empty

C11_RobotInMarkerCell ==
    /\ NoMarkerOccupant
    /\ JustBuilt =>
          /\ MarkerCellsEmpty
          /\ has_robot
          /\ robot_room \in CharRooms(Robot.symbol)

\* C11 (amended): after the build every 'R' cell holds Empty and, when the
\* maze has an 'R' cell, the robot's room is an 'R' cell (the last one of the
\* scan); no grid room ever holds the robot marker.
C11_RobotInMarkerCellIfAny ==
    /\ NoMarkerOccupant
    /\ JustBuilt =>
          /\ MarkerCellsEmpty
          /\ has_robot <=> CharRooms(Robot.symbol) # {}
          /\ has_robot =>
                /\ robot_room \in CharRooms(Robot.symbol)
                /\ \A i \in 1..Len(grid) : \A j \in 1..Len(grid) :
                      (grid[i] = robot_room /\ grid[j] \in CharRooms(Robot.symbol))
                          => j <= i

C11_Witness ==
    /\ JustBuilt
    /\ Cardinality(CharRooms(Robot.symbol)) >= 2
    /\ robot_room \in CharRooms(Robot.symbol)
    /\ occupant[robot_room] = Empty

----------------------------------------------------------------------------
\* C12: Doors.open returns the shared edge sentinel for a value that is not
\* a direction, and a move with such a value leaves the robot where it was
\* without failing.
C12_OpenDefaultsToSentinel ==
    (pc = "ready" /\ CanMove) =>
        /\ open(DoorsOf(robot_room), BogusUrge) = EdgeRoom
        /\ (last.op = "move" /\ last.urge = BogusUrge) =>
              /\ last.target = EdgeRoom
              /\ robot_room = last.from
              /\ error = "none"

----------------------------------------------------------------------------
\* C13: a move that targets an EndGame cell puts the robot in it and leaves
\* the occupant EndGame; the game goes on: from an EndGame cell a move is
\* possible and follows the rule of the occupant it targets.
RuleOf(room) ==
    LET kind == OccupantOf(room).kind
    IN  CASE kind \in {"Wall", "Edge"} -> robot_room
          [] kind \in {"Empty", "Food", "EndGame"} -> room
          [] kind = "Teleport" -> occupant[room].target_room

C13_EndGameIsPassable ==
    [][\A d \in Urge :
          Moves(d) =>
              /\ OccupantOf(Target(d)).kind = "EndGame" =>
                    /\ robot_room' = Target(d)
                    /\ occupant' = occupant
                    /\ error' = "none"
                    /\ pc' = pc
                    /\ CanMove'
              /\ OccupantOf(robot_room).kind = "EndGame" =>
                    /\ robot_room' = RuleOf(Target(d))
                    /\ error' = "none"]_vars

\* the robot left an EndGame cell it had been shown in and moved back into it
C13_Witness ==
    /\ last.op = "move"
    /\ LastEntered(robot_room)
    /\ last.from # robot_room
    /\ robot_room \in Rooms
    /\ occupant[robot_room] = EndGame
    /\ screen = show_maze(grid, occupant, robot_room)

----------------------------------------------------------------------------
\* C14: entering a room whose occupant is the robot marker blocks the robot
\* as a Wall does: its room is the one it was in and stays set.
C14_MarkerBlocksLikeWall ==
    (last.op = "enter" /\ last.urge \in {Robot.kind, Wall.kind}) =>
        /\ robot_room = last.from
        /\ robot_room # NoneRoom

----------------------------------------------------------------------------
\* C15: after Stage 3 the teleport list holds the teleport rooms sorted by
\* label, rooms of one label in scan order; the rooms at positions 2k+1 and
\* 2k+2 (counting from 1) are each other's destination; with an even number
\* of teleports none lacks a destination, with an odd number exactly the
\* last of the sorted list does.
ScansBefore(a, b) == a[1] < b[1] \/ (a[1] = b[1] /\ a[2] < b[2])

C15_SortedStablePairs ==
    pc = "ready" =>
        LET n == Len(teleports)
            label(i) == occupant[teleports[i]].target
            dest(i) == occupant[teleports[i]].target_room
        IN  /\ n = Cardinality(TeleportRooms)
            /\ Coords(teleports) = TeleportRooms
            /\ \A i \in 1..n : \A j \in 1..n :
                  i < j => /\ Ord(label(i)) <= Ord(label(j))
                           /\ label(i) = label(j) =>
                                 ScansBefore(teleports[i], teleports[j])
            /\ \A i \in 1..n :
                  (i % 2 = 1 /\ i < n) => /\ dest(i) = teleports[i + 1]
                                          /\ dest(i + 1) = teleports[i]
            /\ {i \in 1..n : dest(i) = NoneRoom}
                  = IF n % 2 = 0 THEN {} ELSE {n}

\* an odd number of teleports, two of one label, and a scan order that the
\* sort had to change
C15_Witness ==
    /\ JustBuilt
    /\ Len(teleports) % 2 = 1
    /\ \E L \in Labels : Len(LabelRooms(L)) >= 2
    /\ \E i \in 1..Len(teleports) : \E j \in 1..Len(teleports) :
          i < j /\ ScansBefore(teleports[j], teleports[i])
    /\ occupant[teleports[Len(teleports)]].target_room = NoneRoom

----------------------------------------------------------------------------
\* C16: after the build a move (with any argument, failing or not) keeps the
\* grid's coordinates, every room's links and every teleport's destination;
\* the only occupant it can change is the one of the targeted cell, and only
\* from Food to Empty.
C16_MoveFrame ==
    [][(pc = "ready" /\ last'.op \in MoveOps) =>
          /\ grid' = grid
          /\ DOMAIN occupant' = DOMAIN occupant
          /\ doors' = doors
          /\ teleports' = teleports
          /\ \A room \in TeleportRooms : occupant'[room] = occupant[room]
          /\ \A room \in Rooms :
                occupant'[room] # occupant[room] =>
                    /\ room = last'.target
                    /\ occupant[room] = Food
                    /\ occupant'[room] = Empty]_vars

\* food was just eaten next to food that is still there, in a maze with a
\* paired teleport
C16_Witness ==
    /\ LastEntered(robot_room)
    /\ last.from # robot_room
    /\ robot_room \in CharRooms(Food.symbol)
    /\ occupant[robot_room] = Empty
    /\ \E room \in Rooms : occupant[room] = Food
    /\ \E room \in TeleportRooms : occupant[room].target_room # NoneRoom

----------------------------------------------------------------------------
\* C17: in a maze with a robot marker and an even number of teleport cells
\* the robot's room is, after any calls, a room of the grid whose occupant is
\* Empty, Teleport or EndGame, and no call has failed.
C17_RobotRoomIsPassable ==
    (/\ pc = "ready"
     /\ CharRooms(Robot.symbol) # {}
     /\ Cardinality(TeleportRooms) % 2 = 0) =>
        /\ has_robot
        /\ robot_room \in Rooms
        /\ occupant[robot_room].kind \in {"Empty", "Teleport", "EndGame"}
        /\ error = "none"

\* the robot was teleported next to a wall and has just run into it
C17_Witness ==
    /\ pc = "ready"
    /\ Cardinality(TeleportRooms) % 2 = 0
    /\ robot_room \in TeleportRooms
    /\ last.op \in MoveOps
    /\ last.from = robot_room
    /\ last.target \in Rooms
    /\ occupant[last.target] = Wall

----------------------------------------------------------------------------
\* C18 (as stated): once Stage 2 has run, east/west and south/north links
\* between grid rooms mirror each other, and a move into an Empty, Food or
\* EndGame cell followed by the opposite move ends in the room the robot
\* started from.
Opposite(d) ==
    CASE d = "North" -> "South"
      [] d = "South" -> "North"
      [] d = "East" -> "West"
      [] d = "West" -> "East"

SymmetricLinks ==
    \A A \in Rooms : \A B \in Rooms :
        /\ (doors[A].east = B) <=> (doors[B].west = A)
        /\ (doors[A].south = B) <=> (doors[B].north = A)

Passable(room) ==
    /\ room \in Rooms
    /\ occupant[room].kind \in {"Empty", "Food", "EndGame"}

\* the step is a move d into a passable cell, and the opposite move made
\* next would end in the room the robot is leaving
ThereAndBack(d) ==
    /\ robot_room' = Target(d)
    /\ CanMove'
    /\ enter(Target(Opposite(d)))' = robot_room

C18_LinksMirrorRoundTrip ==
    [][/\ pc' \in {"stage3", "ready"} => SymmetricLinks'
       /\ \A d \in Urge :
             (Moves(d) /\ Passable(Target(d))) => ThereAndBack(d)]_vars

\* C18 (amended): the round trip is claimed only when the room the robot
\* starts from does not hold a Teleport.
C18_LinksMirrorRoundTripFromPlainRoom ==
    [][/\ pc' \in {"stage3", "ready"} => SymmetricLinks'
       /\ \A d \in Urge :
             (/\ Moves(d)
              /\ Passable(Target(d))
              /\ OccupantOf(robot_room).kind # "Teleport") => ThereAndBack(d)]_vars

Ragged ==
    \E i \in 1..Len(Split(maze)) : \E j \in 1..Len(Split(maze)) :
        Len(Split(maze)[i]) # Len(Split(maze)[j])

\* in a ragged maze the robot is back, by a plain move from a neighbouring
\* room, in the room the screen last showed it in
C18_Witness ==
    /\ Ragged
    /\ last.op = "move"
    /\ LastEntered(robot_room)
    /\ last.from \in Rooms \ {robot_room}
    /\ Target(Opposite(last.urge)) = last.from
    /\ Passable(robot_room)
    /\ screen = show_maze(grid, occupant, robot_room)

----------------------------------------------------------------------------
\* C19: for a maze text with exactly one 'R' and no empty line (no empty
\* element of maze.split("\n")), show_maze on the freshly built game
\* returns the text itself.
OneMarker == Cardinality({i \in 1..Len(maze) : maze[i] = Robot.symbol}) = 1

NoEmptyLine == \A i \in 1..Len(Split(maze)) : Split(maze)[i] # <<>>

BuildThenRender == CanShow /\ show_maze(grid, occupant, robot_room) = maze

C19_BuildRenderIdentity ==
    (JustBuilt /\ OneMarker /\ NoEmptyLine) => BuildThenRender

\* a freshly built maze of several lines with a teleport renders as its text
C19_Witness ==
    /\ JustBuilt
    /\ OneMarker
    /\ NoEmptyLine
    /\ Len(Split(maze)) > 1
    /\ TeleportRooms # {}
    /\ BuildThenRender

====
